---- MODULE Spec2Model ----
(***************************************************************************)
(* Model of examples/vision-language-modeling/run_lora_vlm.py: dataset     *)
(* normalization (normalize_split), batch collation with assistant-only    *)
(* label masking (make_collate_fn / collate_fn / to_1d_ids) and the        *)
(* driver main().                                                          *)
(***************************************************************************)
EXTENDS Integers, Sequences, FiniteSets, TLC

VARIABLES
    m_pc,       \* normalize_split probe: "raw", "normalized", "renormalized"
    m_ex,       \* the raw records handed to normalize_split._map
    m_out,      \* outcome of _map on each raw record
    m_re,       \* outcome of _map on each already normalized record
    c_pc,       \* collation: "loaded", "ready" (make_collate_fn ran), "collated"
    tok,        \* processor.tokenizer, which make_collate_fn configures
    lib,        \* behaviour of the installed transformers version
    closure,    \* pad_id, boi_id, eoi_id captured by make_collate_fn
    c_batch,    \* the batch handed to collate_fn
    c_enc,      \* the batch collate_fn returned
    pc,         \* main: the step it is at, "done", or "error" once it raised
    args,       \* the parsed command line (training_args and data_args)
    env,        \* RANK and WORLD_SIZE set by the launcher
    output_dir, \* the output directory on disk
    hub,        \* the dataset load_dataset returns, and the datasets version
    last_checkpoint,
    train_dataset,  \* rows [id, ex]: id is the row's position in the train split
    error,      \* the exception that ended main, "" when none
    model_loaded,
    trainer     \* the call of trainer.train

mapVars == <<m_pc, m_ex, m_out, m_re>>
collateVars == <<c_pc, tok, lib, closure, c_batch, c_enc>>
mainVars == <<pc, args, env, output_dir, hub, last_checkpoint, train_dataset, error,
              model_loaded, trainer>>
vars == <<mapVars, collateVars, mainVars>>

(***************************************************************************)
(* Bounds of the model.                                                    *)
(***************************************************************************)
MaxText == 2        \* longest text value of a raw record, in characters
MaxLabel == 1       \* longest label list of a raw record

(***************************************************************************)
(* Python values.  Every value is a record [t, v]: t is the Python type, v *)
(* the content (characters of a str, elements of a list, <<mode, pixels>>  *)
(* of a PIL image).                                                        *)
(***************************************************************************)
None == [t |-> "NoneType", v |-> <<>>]
Str(s) == [t |-> "str", v |-> s]
List(s) == [t |-> "list", v |-> s]
Image(mode, px) == [t |-> "image", v |-> <<mode, px>>]

Whitespace == {" ", "\n"}

RECURSIVE lstrip(_)
lstrip(s) == IF s # <<>> /\ Head(s) \in Whitespace THEN lstrip(Tail(s)) ELSE s

RECURSIVE rstrip(_)
rstrip(s) ==
    IF s # <<>> /\ s[Len(s)] \in Whitespace THEN rstrip(SubSeq(s, 1, Len(s) - 1)) ELSE s

\* str.strip(): leading and trailing whitespace removed
strip(s) == rstrip(lstrip(s))

\* Python truth value of x
Truthy(x) ==
    CASE x.t = "NoneType" -> FALSE
      [] x.t = "image" -> TRUE
      [] OTHER -> x.v # <<>>

\* (x or "")
OrEmpty(x) == IF Truthy(x) THEN x ELSE Str(<<>>)

\* dict.get(key), None when the key is absent
Get(ex, key) == IF key \in DOMAIN ex THEN ex[key] ELSE None

\* Image.convert("RGB")
ConvertRGB(img) == Image("RGB", img.v[2])

(***************************************************************************)
(* normalize_split._map.  The outcome is [exc, val]: exc is the exception  *)
(* raised ("" when the call returns), val the returned dict.               *)
(***************************************************************************)
Raise(e) == [exc |-> e, val |-> [image |-> None]]
Return(d) == [exc |-> "", val |-> d]

\* a = lab[0] if isinstance(lab, list) and lab else ""
MapLabelAnswer(lab) == IF lab.t = "list" /\ lab.v # <<>> THEN lab.v[1] ELSE Str(<<>>)

_map(ex) ==
    LET img == Get(ex, "image") IN
    IF img.t = "NoneType" THEN Raise("ValueError: Missing 'image' column.")
    ELSE IF "query" \in DOMAIN ex /\ "label" \in DOMAIN ex
    THEN LET q == OrEmpty(ex["query"]) IN
         IF q.t # "str" THEN Raise("AttributeError")
         ELSE Return([image |-> ConvertRGB(img),
                      question |-> Str(strip(q.v)),
                      answer |-> MapLabelAnswer(ex["label"])])
    ELSE IF "question" \in DOMAIN ex /\ "answer" \in DOMAIN ex
    THEN LET q == OrEmpty(ex["question"])
             a == OrEmpty(ex["answer"]) IN
         IF q.t # "str" \/ a.t # "str" THEN Raise("AttributeError")
         ELSE Return([image |-> ConvertRGB(img),
                      question |-> Str(strip(q.v)),
                      answer |-> Str(strip(a.v))])
    ELSE Raise("ValueError: Unknown schema")

(***************************************************************************)
(* Raw records of the two accepted schemas and of unknown ones.            *)
(***************************************************************************)
Chars == {" ", "a"}
Texts == UNION {[1..n -> Chars] : n \in 0..MaxText}
TextValues == {None} \cup {Str(s) : s \in Texts}
Images == {None, Image("L", "px1"), Image("RGB", "px2")}
LabelLists == UNION {[1..n -> TextValues] : n \in 0..MaxLabel}
LabelValues == {None, Str(<<"a">>)} \cup {List(l) : l \in LabelLists}

QueryLabel(img, q, lab) == [image |-> img, query |-> q, label |-> lab]
QuestionAnswer(img, q, a) == [image |-> img, question |-> q, answer |-> a]

RawRecords ==
    {QueryLabel(i, q, l) : i \in Images, q \in TextValues, l \in LabelValues}
    \cup {QuestionAnswer(i, q, a) : i \in Images, q \in TextValues, a \in TextValues}
    \cup {[image |-> i, text |-> q] : i \in Images, q \in TextValues}
    \cup {[query |-> q, label |-> List(<<q>>)] : q \in TextValues}
    \cup {[image |-> i, query |-> q, answer |-> q] : i \in Images, q \in TextValues}

\* the two schema variants that carry the content (image, q, x)
Variants == {<<QueryLabel(i, Str(q), List(<<Str(x)>>)), QuestionAnswer(i, Str(q), Str(x))>> :
                i \in Images \ {None}, q \in Texts, x \in Texts}

\* the normalization probe is not running
MapIdle == m_pc = "idle" /\ m_ex = <<>> /\ m_out = <<>> /\ m_re = <<>>

(***************************************************************************)
(* The processor: tokenizer vocabulary, chat template, image expansion.    *)
(* A text is a sequence of pieces, each piece one token of the vocabulary. *)
(***************************************************************************)
IGNORE_INDEX == -100
LEGACY_IMAGE_TOKEN_ID == 262144
MmTokens == 2       \* image placeholder tokens per image
MaxBatch == 2       \* largest batch handed to collate_fn

NoToken == "None"
IntVal(n) == [t |-> "int", v |-> <<n>>]

\* token ids of the pieces (special tokens and text characters)
Vocab ==
    ("<pad>" :> 0) @@ ("<eos>" :> 1) @@ ("<bos>" :> 2) @@ ("<unk>" :> 3)
    @@ ("<start_of_turn>" :> 105) @@ ("<end_of_turn>" :> 106)
    @@ ("\n" :> 107) @@ ("\n\n" :> 108) @@ ("user" :> 2364) @@ ("model" :> 4368)
    @@ (" " :> 236743) @@ ("a" :> 236746) @@ ("q" :> 236752)
    @@ ("<start_of_image>" :> 255999) @@ ("<end_of_image>" :> 256000)
    @@ ("<image_soft_token>" :> LEGACY_IMAGE_TOKEN_ID)

\* tok.convert_tokens_to_ids(token): the unknown-token id, or None, for a
\* token that is not in the vocabulary
convert_tokens_to_ids(tk, token) ==
    IF token \in DOMAIN Vocab THEN IntVal(Vocab[token])
    ELSE IF tk.unk_token # NoToken THEN IntVal(Vocab[tk.unk_token])
    ELSE None

\* tok.pad_token_id, tok.unk_token_id
pad_token_id(tk) == Vocab[tk.pad_token]
unk_token_id(tk) == IF tk.unk_token # NoToken THEN IntVal(Vocab[tk.unk_token]) ELSE None

\* tok.special_tokens_map.get(name, "")
SpecialToken(tk, name) ==
    IF name \in DOMAIN tk.special_tokens_map THEN tk.special_tokens_map[name] ELSE ""

RECURSIVE Concat(_)
Concat(ss) == IF ss = <<>> THEN <<>> ELSE Head(ss) \o Concat(Tail(ss))

\* one content block of a message, as the chat template renders it
RenderItem(item) ==
    IF item.type = "image" THEN <<"<start_of_image>">> ELSE strip(item.text)

\* one turn of the chat template
RenderMessage(msg) ==
    <<"<start_of_turn>", IF msg.role = "assistant" THEN "model" ELSE msg.role, "\n">>
    \o Concat([k \in 1..Len(msg.content) |-> RenderItem(msg.content[k])])
    \o <<"<end_of_turn>", "\n">>

\* processor.apply_chat_template(msgs, tokenize=False, add_generation_prompt=gen)
apply_chat_template(msgs, gen) ==
    <<"<bos>">>
    \o Concat([k \in 1..Len(msgs) |-> RenderMessage(msgs[k])])
    \o (IF gen THEN <<"<start_of_turn>", "model", "\n">> ELSE <<>>)

\* the processor replaces each image marker of a text by the image sequence
ExpandPiece(p) ==
    IF p = "<start_of_image>"
    THEN <<"\n\n", "<start_of_image>">> \o [k \in 1..MmTokens |-> "<image_soft_token>"]
         \o <<"<end_of_image>", "\n\n">>
    ELSE <<p>>

ExpandImages(text) == Concat([k \in 1..Len(text) |-> ExpandPiece(text[k])])

\* tokenizer(text): ids of the pieces, after <bos> when special tokens are added
Tokenize(tk, text, add_special) ==
    (IF add_special /\ tk.add_bos_token THEN <<Vocab["<bos>"]>> ELSE <<>>)
    \o [k \in 1..Len(text) |-> Vocab[text[k]]]

Max(S) == CHOOSE x \in S : \A y \in S : y <= x
Fill(n, x) == [k \in 1..n |-> x]

\* padding=True: every row padded to the longest on tok.padding_side
PadRow(tk, row, n, filler) ==
    IF tk.padding_side = "right" THEN row \o Fill(n - Len(row), filler)
    ELSE Fill(n - Len(row), filler) \o row

\* processor(text=texts, images=images, return_tensors="pt", padding=True)
Processor(tk, texts, images) ==
    LET rows == [i \in 1..Len(texts) |-> Tokenize(tk, ExpandImages(texts[i]), TRUE)]
        n == Max({Len(rows[i]) : i \in 1..Len(rows)})
    IN  [input_ids |-> [i \in 1..Len(rows) |-> PadRow(tk, rows[i], n, pad_token_id(tk))],
         attention_mask |-> [i \in 1..Len(rows) |->
                                PadRow(tk, Fill(Len(rows[i]), 1), n, 0)],
         pixel_values |-> Concat(images)]

\* token ids of apply_chat_template([msgs], add_generation_prompt=True,
\* tokenize=True): the template's text through the processor; newer versions
\* do not add special tokens to a text that already starts with <bos>
TemplateIds(tk, lb, msgs) ==
    Tokenize(tk, ExpandImages(apply_chat_template(msgs, TRUE)),
             ~lb.template_skips_special)

\* what the call returns for a batch of one, by library version
ReturnKinds == {"BatchEncoding", "dict", "Tensor", "list"}
TemplateReturn(kind, ids) ==
    [kind |-> kind, tensor |-> kind # "list", shape |-> <<1, Len(ids)>>, data |-> ids]

(***************************************************************************)
(* to_1d_ids, process_vision_info, make_collate_fn, collate_fn.            *)
(***************************************************************************)
Squeeze0(t) == IF t.shape[1] = 1 THEN [t EXCEPT !.shape = Tail(t.shape)] ELSE t

\* Tensor.view(-1)
Flatten(t) == [t EXCEPT !.shape = <<Len(t.data)>>]

to_1d_ids(obj, tk) ==
    LET ids == Tokenize(tk, obj.data, TRUE)
        t == CASE obj.kind \in {"BatchEncoding", "dict"} ->
                      [tensor |-> obj.tensor, shape |-> obj.shape, data |-> obj.data]
               [] obj.kind = "str" ->
                      [tensor |-> TRUE, shape |-> <<1, Len(ids)>>, data |-> ids]
               [] OTHER -> [tensor |-> TRUE, shape |-> obj.shape, data |-> obj.data]
    IN  IF t.tensor
        THEN (IF Len(t.shape) = 2 THEN Squeeze0(t)
              ELSE IF Len(t.shape) > 2 THEN Flatten(t) ELSE t)
        ELSE (IF Len(t.shape) = 2 THEN Squeeze0(t) ELSE t)

\* Tensor.numel()
RECURSIVE Product(_)
Product(s) == IF s = <<>> THEN 1 ELSE Head(s) * Product(Tail(s))
numel(t) == Product(t.shape)

process_vision_info(messages) ==
    LET ImagesOf(msg) ==
            LET content == msg.content
                IsImage(k) == "image" \in DOMAIN content[k] \/ content[k].type = "image"
            IN  Concat([k \in 1..Len(content) |->
                           IF IsImage(k) THEN <<ConvertRGB(content[k].image)>> ELSE <<>>])
    IN  Concat([m \in 1..Len(messages) |-> ImagesOf(messages[m])])

UserTurn(ex, q) ==
    [role |-> "user",
     content |-> <<[type |-> "image", image |-> ex.image], [type |-> "text", text |-> q]>>]

\* q = ex["question"].strip(); a = (ex.get("answer") or "").strip()
QuestionOf(ex) == strip(ex.question.v)
AnswerOf(ex) == strip(OrEmpty(Get(ex, "answer")).v)

FullMsgs(ex) ==
    <<UserTurn(ex, QuestionOf(ex))>>
    \o (IF AnswerOf(ex) # <<>>
        THEN <<[role |-> "assistant",
                content |-> <<[type |-> "text", text |-> AnswerOf(ex)]>>]>>
        ELSE <<>>)

\* the prompt is measured on the whole conversation, answer included
PromptMsgsWithAnswer(ex) == FullMsgs(ex)

PromptMsgs(ex) == <<UserTurn(ex, QuestionOf(ex))>>

\* labels[labels == id] = IGNORE_INDEX
MaskId(labels, id) ==
    [i \in 1..Len(labels) |->
        [j \in 1..Len(labels[i]) |-> IF labels[i][j] = id THEN IGNORE_INDEX ELSE labels[i][j]]]

\* the image-marker masking, skipped for None and for the unknown-token id
MaskMarker(labels, id, unk) ==
    IF id.t = "int" /\ id # unk THEN MaskId(labels, id.v[1]) ELSE labels

\* the slice stops one short of the measured prompt length
MaskPromptShort(labels, n) ==
    [i \in 1..Len(labels) |->
        [j \in 1..Len(labels[i]) |-> IF j < n[i] THEN IGNORE_INDEX ELSE labels[i][j]]]

\* labels[i, : n[i]] = IGNORE_INDEX for every row i
MaskPrompt(labels, n) ==
    [i \in 1..Len(labels) |->
        [j \in 1..Len(labels[i]) |-> IF j <= n[i] THEN IGNORE_INDEX ELSE labels[i][j]]]

\* the tokenizer attributes make_collate_fn sets
ConfigureTokenizer(tk) ==
    [tk EXCEPT !.padding_side = "right",
               !.pad_token = IF @ = NoToken THEN tk.eos_token ELSE @]

\* pad_id is taken to be the id of "<pad>" whatever the tokenizer pads with
CapturedFixedPad(tk) ==
    [pad_id |-> Vocab["<pad>"],
     boi_id |-> convert_tokens_to_ids(tk, SpecialToken(tk, "boi_token")),
     eoi_id |-> convert_tokens_to_ids(tk, SpecialToken(tk, "eoi_token"))]

\* pad_id, boi_id, eoi_id
Captured(tk) ==
    [pad_id |-> pad_token_id(tk),
     boi_id |-> convert_tokens_to_ids(tk, SpecialToken(tk, "boi_token")),
     eoi_id |-> convert_tokens_to_ids(tk, SpecialToken(tk, "eoi_token"))]

\* labels is enc["input_ids"] itself: the writes to labels land in input_ids
InputIdsAliased(ids, labels) == labels

\* labels = enc["input_ids"].clone(): input_ids keeps the values it had
\* before labels was written to
InputIdsKept(ids, labels) == ids

collate_fn(tk, lb, cl, batch, kind) ==
    LET n == Len(batch)
        full_texts == [i \in 1..n |-> strip(apply_chat_template(FullMsgs(batch[i]), FALSE))]
        full_images == [i \in 1..n |-> process_vision_info(FullMsgs(batch[i]))]
        prompt_ids_list ==
            [i \in 1..n |->
                to_1d_ids(TemplateReturn(kind, TemplateIds(tk, lb, PromptMsgs(batch[i]))), tk)]
        enc == Processor(tk, full_texts, full_images)
        l0 == MaskId(enc.input_ids, cl.pad_id)
        l1 == MaskMarker(l0, cl.boi_id, unk_token_id(tk))
        l2 == MaskMarker(l1, cl.eoi_id, unk_token_id(tk))
        l3 == MaskId(l2, LEGACY_IMAGE_TOKEN_ID)
        labels == MaskPrompt(l3, [i \in 1..n |-> numel(prompt_ids_list[i])])
    IN  [input_ids |-> InputIdsKept(enc.input_ids, labels),
         attention_mask |-> enc.attention_mask,
         pixel_values |-> enc.pixel_values,
         labels |-> labels]

(***************************************************************************)
(* Collation as a state machine: a processor is loaded, make_collate_fn    *)
(* configures its tokenizer, collate_fn is called on a batch.              *)
(***************************************************************************)
Tokenizers ==
    [pad_token : {NoToken, "<pad>"},
     eos_token : {"<eos>"},
     unk_token : {NoToken, "<unk>"},
     padding_side : {"left"},
     add_bos_token : {TRUE},
     special_tokens_map : {<<>>, [boi_token |-> "<start_of_image>",
                                  eoi_token |-> "<end_of_image>"]}]

Libraries == [template_skips_special : BOOLEAN]

Questions == {<<"q">>, <<" ", "q", "q">>}
Answers == {<<" ">>, <<"a">>, <<" ", "a", "a">>, <<"<eos>">>}
Examples ==
    {[image |-> Image("RGB", "px1"), question |-> Str(q), answer |-> Str(a)] :
        q \in Questions, a \in Answers}
Batches == UNION {[1..n -> Examples] : n \in 1..MaxBatch}

NoClosure == [pad_id |-> 0, boi_id |-> None, eoi_id |-> None]
NoEnc == [input_ids |-> <<>>, attention_mask |-> <<>>, pixel_values |-> <<>>, labels |-> <<>>]

NoTrainer == [called |-> FALSE, resume_from_checkpoint |-> None, train_dataset |-> <<>>]

MainStart ==
    /\ pc = "start"
    /\ last_checkpoint = None
    /\ train_dataset = <<>>
    /\ error = ""
    /\ model_loaded = FALSE
    /\ trainer = NoTrainer

\* main is not running
MainIdle ==
    /\ pc = "idle"
    /\ args = [do_train |-> FALSE]
    /\ env = [RANK |-> 0, WORLD_SIZE |-> 1]
    /\ output_dir = [isdir |-> FALSE, other |-> FALSE, checkpoints |-> {}]
    /\ hub = [splits |-> {}, train |-> <<>>, contiguous |-> FALSE]
    /\ last_checkpoint = None
    /\ train_dataset = <<>>
    /\ error = ""
    /\ model_loaded = FALSE
    /\ trainer = NoTrainer

\* collation is not running
CollateIdle ==
    /\ c_pc = "idle"
    /\ tok = [pad_token |-> NoToken]
    /\ lib = [template_skips_special |-> FALSE]
    /\ closure = NoClosure
    /\ c_batch = <<>>
    /\ c_enc = NoEnc

InitCollate ==
    /\ c_pc = "loaded"
    /\ tok \in Tokenizers
    /\ lib \in Libraries
    /\ closure = NoClosure
    /\ c_batch = <<>>
    /\ c_enc = NoEnc
    /\ MapIdle
    /\ MainIdle

make_collate_fn ==
    /\ c_pc = "loaded"
    /\ tok' = ConfigureTokenizer(tok)
    /\ closure' = Captured(tok')
    /\ c_pc' = "ready"
    /\ UNCHANGED <<lib, c_batch, c_enc, mapVars, mainVars>>

Collate ==
    /\ c_pc = "ready"
    /\ \E batch \in Batches, kind \in ReturnKinds :
          /\ c_batch' = batch
          /\ c_enc' = collate_fn(tok, lib, closure, batch, kind)
    /\ c_pc' = "collated"
    /\ UNCHANGED <<tok, lib, closure, mapVars, mainVars>>

NextCollate == make_collate_fn \/ Collate

SpecCollate == InitCollate /\ [][NextCollate]_vars

Collated == c_pc = "collated"
Rows == 1..Len(c_batch)
Cols(i) == 1..Len(c_enc.labels[i])

\* number of token ids of the prompt-only rendering of example i, tokenized alone
PromptLength(i) ==
    Len(Tokenize(tok, ExpandImages(apply_chat_template(
            <<UserTurn(c_batch[i], QuestionOf(c_batch[i]))>>, TRUE)),
        ~lib.template_skips_special))

(* C1: in the returned batch, labels[i, 0:prompt_length_i] is entirely the
   ignore sentinel, for every example i. *)
PromptSpanIgnored ==
    Collated =>
        \A i \in Rows : \A j \in Cols(i) :
            j <= PromptLength(i) => c_enc.labels[i][j] = IGNORE_INDEX

\* a batch of two prompts of different lengths, each row keeping an
\* unmasked entry right after its masked prompt span
PromptSpanIgnoredWitness ==
    /\ Collated
    /\ Len(c_batch) = 2
    /\ PromptLength(1) < PromptLength(2)
    /\ \A i \in Rows :
          /\ PromptLength(i) + 1 \in Cols(i)
          /\ c_enc.labels[i][PromptLength(i) + 1] # IGNORE_INDEX
          /\ \A j \in 1..PromptLength(i) : c_enc.labels[i][j] = IGNORE_INDEX

(* C2: an example whose answer is non-empty after stripping keeps at least
   one labels entry that is not the ignore sentinel. *)
AnswerNotFullyMasked ==
    Collated =>
        \A i \in Rows :
            strip(c_batch[i].answer.v) # <<>> =>
                \E j \in Cols(i) : c_enc.labels[i][j] # IGNORE_INDEX

\* a padded row of a non-empty answer: what is left unmasked is the answer
\* token and the end-of-turn marker that follows it
AnswerNotFullyMaskedWitness ==
    /\ Collated
    /\ \E i \in Rows :
          /\ strip(c_batch[i].answer.v) = <<"a">>
          /\ \E j \in Cols(i) : c_enc.attention_mask[i][j] = 0
          /\ {c_enc.labels[i][j] : j \in Cols(i)} \ {IGNORE_INDEX}
                = {Vocab["a"], Vocab["<end_of_turn>"]}

(* C3: every labels position that is right-padding of input_ids holds the
   ignore sentinel, never the pad-token id, also when the pad token was set
   to the end-of-sequence token. *)
PaddingIgnored ==
    Collated =>
        \A i \in Rows : \A j \in Cols(i) :
            c_enc.attention_mask[i][j] = 0 =>
                /\ c_enc.input_ids[i][j] = pad_token_id(tok)
                /\ c_enc.labels[i][j] = IGNORE_INDEX

\* a tokenizer that had no pad token and pads with <eos>: a row ends in
\* padding, after its last real token
PaddingIgnoredWitness ==
    /\ Collated
    /\ tok.pad_token = "<eos>"
    /\ closure.pad_id = Vocab["<eos>"]
    /\ \E i \in Rows :
          /\ c_enc.attention_mask[i][1] = 1
          /\ c_enc.attention_mask[i][Len(c_enc.labels[i])] = 0
          /\ c_enc.input_ids[i][Len(c_enc.labels[i])] = Vocab["<eos>"]
          /\ c_enc.labels[i][Len(c_enc.labels[i])] = IGNORE_INDEX

\* the batch tokenization of the full-conversation renderings of c_batch
FullEncoding ==
    Processor(tok,
              [i \in Rows |-> strip(apply_chat_template(FullMsgs(c_batch[i]), FALSE))],
              [i \in Rows |-> process_vision_info(FullMsgs(c_batch[i]))])

(* C11: labels has the shape of input_ids and each labels entry is the
   ignore sentinel or the input_ids token at its position; input_ids,
   attention_mask and the image tensors of the returned batch are those of
   the batch tokenization of the full-conversation renderings. *)
LabelsOverlayInputIds ==
    Collated =>
        /\ Len(c_enc.labels) = Len(c_enc.input_ids)
        /\ \A i \in Rows :
              /\ Len(c_enc.labels[i]) = Len(c_enc.input_ids[i])
              /\ \A j \in Cols(i) :
                    c_enc.labels[i][j] \in {IGNORE_INDEX, c_enc.input_ids[i][j]}
        /\ c_enc.input_ids = FullEncoding.input_ids
        /\ c_enc.attention_mask = FullEncoding.attention_mask
        /\ c_enc.pixel_values = FullEncoding.pixel_values
        /\ \A i \in Rows : \A j \in Cols(i) : c_enc.input_ids[i][j] # IGNORE_INDEX

\* a batch of two rows, one padded: labels masks the pad, image and prompt
\* tokens that input_ids still holds, and keeps the answer token
LabelsOverlayInputIdsWitness ==
    /\ Collated
    /\ Len(c_batch) = 2
    /\ Len(c_enc.pixel_values) = 2
    /\ \E i \in Rows :
          /\ \E j \in Cols(i) :
                c_enc.input_ids[i][j] = closure.pad_id /\ c_enc.labels[i][j] = IGNORE_INDEX
          /\ \E j \in Cols(i) :
                /\ c_enc.input_ids[i][j] = LEGACY_IMAGE_TOKEN_ID
                /\ c_enc.labels[i][j] = IGNORE_INDEX
          /\ \E j \in Cols(i) :
                c_enc.input_ids[i][j] = Vocab["a"] /\ c_enc.labels[i][j] = Vocab["a"]

InitMap ==
    /\ m_pc = "raw"
    /\ m_ex \in {<<e>> : e \in RawRecords} \cup Variants
    /\ m_out = <<>>
    /\ m_re = <<>>
    /\ CollateIdle
    /\ MainIdle

\* normalize_split on the raw records
Normalize ==
    /\ m_pc = "raw"
    /\ m_out' = [i \in 1..Len(m_ex) |-> _map(m_ex[i])]
    /\ m_pc' = "normalized"
    /\ UNCHANGED <<m_ex, m_re, collateVars, mainVars>>

\* normalize_split on its own output (the records the first pass returned)
Renormalize ==
    /\ m_pc = "normalized"
    /\ \A i \in 1..Len(m_out) : m_out[i].exc = ""
    /\ m_re' = [i \in 1..Len(m_out) |-> _map(m_out[i].val)]
    /\ m_pc' = "renormalized"
    /\ UNCHANGED <<m_ex, m_out, collateVars, mainVars>>

NextMap == Normalize \/ Renormalize

SpecMap == InitMap /\ [][NextMap]_vars

(* C4: re-normalizing an already normalized record returns it unchanged. *)
NormalizeIdempotent == m_pc = "renormalized" => m_re = m_out

(* C5: the query/label variant and the question/answer variant of the same
   content (image, q, x) normalize to identical records. *)
VariantsNormalizeAlike ==
    (m_pc # "raw" /\ m_ex \in Variants) => m_out[1] = m_out[2]

(***************************************************************************)
(* main(): checkpoint detection, dataset loading, subsetting, sharding,    *)
(* normalization, filtering, model loading, training.                      *)
(***************************************************************************)
MaxCkpt == 2        \* highest checkpoint number in the output directory
MaxRows == 3        \* longest train split on the hub
MaxN == 2           \* largest max_train_samples, the scenario's 10 apart
MaxSeed == 2        \* seeds 1..MaxSeed
MaxWorld == 2       \* largest WORLD_SIZE

Path(kind, n) == Str(<<kind, n>>)

\* transformers.trainer_utils.get_last_checkpoint(folder)
get_last_checkpoint(dir) ==
    IF dir.checkpoints = {} THEN None ELSE Path("checkpoint", Max(dir.checkpoints))

\* len(os.listdir(output_dir)) > 0
ListdirNonEmpty(dir) == dir.other \/ dir.checkpoints # {}

\* the test of overwrite_output_dir is inverted
DetectsCheckpointInverted(a, dir) == dir.isdir /\ a.do_train /\ a.overwrite_output_dir

\* os.path.isdir(output_dir) and do_train and not overwrite_output_dir
DetectsCheckpoint(a, dir) == dir.isdir /\ a.do_train /\ ~a.overwrite_output_dir

\* the checkpoint found in the output directory wins over the explicit one
CheckpointToPassLastFirst(a, last) ==
    IF last # None THEN last ELSE a.resume_from_checkpoint

\* the checkpoint handed to trainer.train
CheckpointToPass(a, last) ==
    IF a.resume_from_checkpoint # None THEN a.resume_from_checkpoint
    ELSE IF last # None THEN last
    ELSE None

\* Dataset.select(range(n)) on rows
SelectRange(rows, n) == SubSeq(rows, 1, IF n < 0 THEN 0 ELSE n)

\* Dataset.shuffle(seed): a permutation of the rows fixed by the seed
Shuffle(rows, seed) ==
    [k \in 1..Len(rows) |-> rows[((k - 1 + seed) % Len(rows)) + 1]]

Min(a, b) == IF a <= b THEN a ELSE b

\* the global subset: first N or random N rows, all rows when N is None
Subset(rows, a) ==
    IF a.max_train_samples = None THEN rows
    ELSE LET n == Min(Len(rows), a.max_train_samples.v[1]) IN
         IF a.sample_strategy = "random" THEN SelectRange(Shuffle(rows, a.seed), n)
         ELSE SelectRange(rows, n)

\* Dataset.shard(num_shards, index): contiguous blocks in datasets >= 3.0,
\* every num_shards-th row before
LibShard(rows, num_shards, index, contiguous) ==
    IF contiguous
    THEN LET div == Len(rows) \div num_shards
             mod == Len(rows) % num_shards
             start == div * index + Min(index, mod)
             end == start + div + (IF index < mod THEN 1 ELSE 0)
         IN  SubSeq(rows, start + 1, end)
    ELSE LET count == (Len(rows) - index + num_shards - 1) \div num_shards
         IN  [k \in 1..(IF Len(rows) > index THEN count ELSE 0) |->
                 rows[index + (k - 1) * num_shards + 1]]

\* every rank takes the shard of rank 0
ShardOfRankZero(rows, e, contiguous) ==
    IF e.WORLD_SIZE > 1 THEN LibShard(rows, e.WORLD_SIZE, 0, contiguous) ELSE rows

\* if world_size > 1: train_dataset.shard(num_shards=world_size, index=rank)
Shard(rows, e, contiguous) ==
    IF e.WORLD_SIZE > 1 THEN LibShard(rows, e.WORLD_SIZE, e.RANK, contiguous) ELSE rows

\* a failing record is dropped and the mapping goes on
normalize_splitSkipping(ds) ==
    LET Keep(k) == _map(ds[k].ex).exc = ""
        RECURSIVE Go(_)
        Go(k) == IF k > Len(ds) THEN <<>>
                 ELSE (IF Keep(k) THEN <<[id |-> ds[k].id, ex |-> _map(ds[k].ex).val]>>
                       ELSE <<>>) \o Go(k + 1)
    IN  [exc |-> "", val |-> Go(1)]

\* ds.map(_map): the first exception _map raises ends the mapping
normalize_split(ds) ==
    LET out == [k \in 1..Len(ds) |-> _map(ds[k].ex)]
        bad == {k \in 1..Len(ds) : out[k].exc # ""}
    IN  IF bad # {}
        THEN [exc |-> out[CHOOSE k \in bad : \A l \in bad : k <= l].exc, val |-> <<>>]
        ELSE [exc |-> "", val |-> [k \in 1..Len(ds) |-> [id |-> ds[k].id, ex |-> out[k].val]]]

\* the answer is compared with "" without stripping it
KeepsUnstripped(ex) == ex.answer.t = "str" /\ ex.answer.v # <<>>

\* isinstance(ex["answer"], str) and ex["answer"].strip() != ""
Keeps(ex) == ex.answer.t = "str" /\ strip(ex.answer.v) # <<>>

\* Dataset.filter(f)
RECURSIVE Filter(_)
Filter(ds) ==
    IF ds = <<>> THEN <<>>
    ELSE (IF Keeps(Head(ds).ex) THEN <<Head(ds)>> ELSE <<>>) \o Filter(Tail(ds))

(***************************************************************************)
(* Inputs of main: command line, environment, output directory, hub.       *)
(***************************************************************************)
OutputDirs ==
    {[isdir |-> FALSE, other |-> FALSE, checkpoints |-> {}]}
    \cup [isdir : {TRUE}, other : BOOLEAN, checkpoints : SUBSET (1..MaxCkpt)]

Environments ==
    {e \in [RANK : 0..(MaxWorld - 1), WORLD_SIZE : 1..MaxWorld] : e.RANK < e.WORLD_SIZE}

Img == Image("L", "px1")
QueryLabelRows ==
    {QueryLabel(Img, Str(<<"q">>), List(<<Str(<<" ", "a">>)>>)),
     QueryLabel(Img, Str(<<"q">>), List(<<Str(<<" ">>)>>)),
     QueryLabel(Img, Str(<<"q">>), List(<<None>>)),
     QueryLabel(None, Str(<<"q">>), List(<<Str(<<"a">>)>>))}
QuestionAnswerRows ==
    {QuestionAnswer(Img, Str(<<"q">>), Str(<<"a">>)),
     QuestionAnswer(Img, Str(<<"q">>), Str(<<>>))}
UnknownRows == {[image |-> Img, text |-> Str(<<"q">>)]}
NoImageRows == {[query |-> Str(<<"q">>), label |-> List(<<Str(<<"a">>)>>)]}

TrainSplits ==
    UNION {[1..n -> QueryLabelRows] \cup [1..n -> QuestionAnswerRows]
              \cup [1..n -> UnknownRows] \cup [1..n -> NoImageRows] : n \in 0..MaxRows}

\* the scenario: 100 examples
ScenarioSplit == [k \in 1..100 |-> QuestionAnswer(Img, Str(<<"q">>), Str(<<"a">>))]

\* every command line and output directory, on a small dataset
InitConfig ==
    /\ args \in [do_train : BOOLEAN, overwrite_output_dir : BOOLEAN,
                 resume_from_checkpoint : {None, Path("resume", 0)},
                 dataset_name : {None, Str(<<"ds">>)},
                 max_train_samples : {None}, sample_strategy : {"first"}, seed : {1}]
    /\ env = [RANK |-> 0, WORLD_SIZE |-> 1]
    /\ output_dir \in OutputDirs
    /\ hub \in [splits : {{"train", "test"}, {"test"}},
                train : {s \in TrainSplits : Len(s) = 1},
                contiguous : {TRUE}]
    /\ MainStart
    /\ MapIdle
    /\ CollateIdle

\* every dataset, subset, seed and rank, on a command line that trains into
\* a fresh output directory (the seed varies where it is used, under the
\* random strategy)
InitData ==
    /\ args \in {a \in [do_train : {TRUE}, overwrite_output_dir : {FALSE},
                         resume_from_checkpoint : {None},
                         dataset_name : {Str(<<"ds">>)},
                         max_train_samples :
                             {None} \cup {IntVal(n) : n \in (0..MaxN) \cup {10}},
                         sample_strategy : {"first", "random"}, seed : 1..MaxSeed] :
                     a.sample_strategy = "first" => a.seed = 1}
    /\ env \in Environments
    /\ output_dir = [isdir |-> FALSE, other |-> FALSE, checkpoints |-> {}]
    /\ hub \in [splits : {{"train", "test"}},
                train : TrainSplits \cup {ScenarioSplit},
                contiguous : BOOLEAN]
    /\ MainStart
    /\ MapIdle
    /\ CollateIdle

Fail(msg) == pc' = "error" /\ error' = msg

\* lines 396-409
DetectLastCheckpoint ==
    /\ pc = "start"
    /\ IF DetectsCheckpoint(args, output_dir)
       THEN /\ last_checkpoint' = get_last_checkpoint(output_dir)
            /\ IF last_checkpoint' = None /\ ListdirNonEmpty(output_dir)
               THEN Fail("ValueError: Output directory already exists and is not empty")
               ELSE pc' = "load_dataset" /\ UNCHANGED error
       ELSE /\ pc' = "load_dataset"
            /\ UNCHANGED <<last_checkpoint, error>>
    /\ UNCHANGED <<args, env, output_dir, hub, train_dataset, model_loaded, trainer,
                   mapVars, collateVars>>

\* lines 413-427
LoadDataset ==
    /\ pc = "load_dataset"
    /\ IF args.dataset_name = None
       THEN Fail("ValueError: You must specify a dataset_name") /\ UNCHANGED train_dataset
       ELSE IF "train" \notin hub.splits
       THEN Fail("ValueError: Training requires a train split") /\ UNCHANGED train_dataset
       ELSE /\ train_dataset' = [k \in 1..Len(hub.train) |-> [id |-> k, ex |-> hub.train[k]]]
            /\ pc' = "subset"
            /\ UNCHANGED error
    /\ UNCHANGED <<args, env, output_dir, hub, last_checkpoint, model_loaded, trainer,
                   mapVars, collateVars>>

\* lines 429-440
SubsetDataset ==
    /\ pc = "subset"
    /\ train_dataset' = Subset(train_dataset, args)
    /\ pc' = "shard"
    /\ UNCHANGED <<args, env, output_dir, hub, last_checkpoint, error, model_loaded, trainer,
                   mapVars, collateVars>>

\* lines 442-445
ShardDataset ==
    /\ pc = "shard"
    /\ train_dataset' = Shard(train_dataset, env, hub.contiguous)
    /\ pc' = "normalize"
    /\ UNCHANGED <<args, env, output_dir, hub, last_checkpoint, error, model_loaded, trainer,
                   mapVars, collateVars>>

\* lines 447-448
NormalizeDataset ==
    /\ pc = "normalize"
    /\ LET r == normalize_split(train_dataset) IN
       IF r.exc # ""
       THEN Fail(r.exc) /\ UNCHANGED train_dataset
       ELSE train_dataset' = r.val /\ pc' = "filter" /\ UNCHANGED error
    /\ UNCHANGED <<args, env, output_dir, hub, last_checkpoint, model_loaded, trainer,
                   mapVars, collateVars>>

\* lines 450-453
FilterDataset ==
    /\ pc = "filter"
    /\ train_dataset' = Filter(train_dataset)
    /\ pc' = "load_model"
    /\ UNCHANGED <<args, env, output_dir, hub, last_checkpoint, error, model_loaded, trainer,
                   mapVars, collateVars>>

\* lines 458-546: processor, model, LoRA wrapper, collator, trainer
LoadModel ==
    /\ pc = "load_model"
    /\ model_loaded' = TRUE
    /\ pc' = "train"
    /\ UNCHANGED <<args, env, output_dir, hub, last_checkpoint, train_dataset, error, trainer,
                   mapVars, collateVars>>

\* lines 548-573
Train ==
    /\ pc = "train"
    /\ IF args.do_train
       THEN trainer' = [called |-> TRUE,
                        resume_from_checkpoint |-> CheckpointToPass(args, last_checkpoint),
                        train_dataset |-> train_dataset]
       ELSE UNCHANGED trainer
    /\ pc' = "done"
    /\ UNCHANGED <<args, env, output_dir, hub, last_checkpoint, train_dataset, error,
                   model_loaded, mapVars, collateVars>>

NextMain ==
    \/ DetectLastCheckpoint
    \/ LoadDataset
    \/ SubsetDataset
    \/ ShardDataset
    \/ NormalizeDataset
    \/ FilterDataset
    \/ LoadModel
    \/ Train

SpecConfig == InitConfig /\ [][NextMain]_vars
SpecData == InitData /\ [][NextMain]_vars

(***************************************************************************)
(* Properties of main.                                                     *)
(***************************************************************************)
AllRows == [k \in 1..Len(hub.train) |-> [id |-> k, ex |-> hub.train[k]]]
GlobalSubset == Subset(AllRows, args)
RankShard(r) == Shard(GlobalSubset, [RANK |-> r, WORLD_SIZE |-> env.WORLD_SIZE], hub.contiguous)
Ids(rows) == {rows[k].id : k \in 1..Len(rows)}
Ranks == 0..(env.WORLD_SIZE - 1)
Loaded == pc \notin {"start", "load_dataset"} /\ error = ""
Scenario ==
    /\ Len(hub.train) = 100
    /\ args.max_train_samples = IntVal(10)
    /\ args.sample_strategy = "first"
    /\ env.WORLD_SIZE = 2

(* C6: the shards of ranks 0..world_size-1, each taken from the global
   subset, are pairwise disjoint and their union is the global subset of
   min(N, dataset length) examples; with 100 examples, N = 10, strategy
   'first' and 2 ranks the subset is the first 10 examples and each rank
   gets 5 of them. *)
ShardsPartitionSubset ==
    Loaded =>
        /\ pc = "shard" => train_dataset = GlobalSubset
        /\ pc = "normalize" => train_dataset = RankShard(env.RANK)
        /\ \A r \in Ranks : Cardinality(Ids(RankShard(r))) = Len(RankShard(r))
        /\ \A r1, r2 \in Ranks : r1 # r2 => Ids(RankShard(r1)) \cap Ids(RankShard(r2)) = {}
        /\ UNION {Ids(RankShard(r)) : r \in Ranks} = Ids(GlobalSubset)
        /\ Cardinality(Ids(GlobalSubset)) = Len(GlobalSubset)
        /\ args.max_train_samples # None =>
              Len(GlobalSubset) = Min(args.max_train_samples.v[1], Len(hub.train))
        /\ Scenario =>
              /\ Ids(GlobalSubset) = 1..10
              /\ \A r \in Ranks : Len(RankShard(r)) = 5

\* rank 1 of the scenario holds its 5 of the first 10 examples
ShardsPartitionSubsetWitness ==
    /\ Scenario
    /\ env.RANK = 1
    /\ pc = "normalize"
    /\ Len(train_dataset) = 5
    /\ Ids(train_dataset) \subseteq 1..10
    /\ Ids(train_dataset) \cap Ids(RankShard(0)) = {}

MissingImage(ex) == "image" \notin DOMAIN ex \/ ex.image = None
UnknownSchema(ex) ==
    /\ ~({"query", "label"} \subseteq DOMAIN ex)
    /\ ~({"question", "answer"} \subseteq DOMAIN ex)
BadRows(rows) == {k \in 1..Len(rows) : MissingImage(rows[k].ex) \/ UnknownSchema(rows[k].ex)}
FirstOf(S) == CHOOSE k \in S : \A l \in S : k <= l
ImageError == "ValueError: Missing 'image' column."
SchemaError == "ValueError: Unknown schema"
AfterNormalize == {"filter", "load_model", "train", "done"}

(* C7: a record without image, or of neither known schema, makes the
   normalization raise a data error; the run stops at that record: it is
   not skipped and no later step (filter, model loading, training) runs. *)
BadRecordAborts ==
    LET shard == RankShard(env.RANK)
        bad == BadRows(shard)
    IN  /\ pc \in AfterNormalize => bad = {} /\ Ids(train_dataset) \subseteq Ids(shard)
        /\ pc = "filter" => Ids(train_dataset) = Ids(shard)
        /\ (Loaded /\ bad # {}) => pc \in {"subset", "shard", "normalize"}
        /\ (pc = "error" /\ error \in {ImageError, SchemaError}) =>
              /\ bad # {}
              /\ error = IF MissingImage(shard[FirstOf(bad)].ex) THEN ImageError
                          ELSE SchemaError
              /\ train_dataset = shard
              /\ ~model_loaded
              /\ ~trainer.called
              /\ ~ENABLED NextMain
        /\ (pc = "error" /\ bad # {} /\ train_dataset = shard /\ args.dataset_name # None) =>
              error \in {ImageError, SchemaError}

\* the second record of the shard has no image: main stopped there
BadRecordAbortsWitness ==
    /\ pc = "error"
    /\ error = ImageError
    /\ BadRows(RankShard(env.RANK)) = {2}
    /\ Len(RankShard(env.RANK)) = 3
    /\ ~model_loaded

(* C10: every example of the training dataset handed to the trainer has an
   answer that is a string and is non-empty after stripping. *)
Answered(rows) ==
    \A k \in 1..Len(rows) :
        rows[k].ex.answer.t = "str" /\ strip(rows[k].ex.answer.v) # <<>>

TrainerAnswersNonEmpty ==
    /\ pc \in {"load_model", "train", "done"} => Answered(train_dataset)
    /\ trainer.called => Answered(trainer.train_dataset) /\ trainer.train_dataset = train_dataset

\* the trainer got the one answered record of a query/label shard whose
\* other records had a blank and a None answer
TrainerAnswersNonEmptyWitness ==
    /\ trainer.called
    /\ Len(trainer.train_dataset) = 1
    /\ trainer.train_dataset[1].ex.answer = Str(<<" ", "a">>)
    /\ Len(RankShard(env.RANK)) = 3
    /\ \E k \in 1..3 : RankShard(env.RANK)[k].ex.label = List(<<Str(<<" ">>)>>)
    /\ \E k \in 1..3 : RankShard(env.RANK)[k].ex.label = List(<<None>>)

Aborted == pc = "error" /\ error # "" /\ ~model_loaded /\ ~trainer.called /\ ~ENABLED NextMain
DirError == "ValueError: Output directory already exists and is not empty"
DirNonEmpty == output_dir.isdir /\ (output_dir.other \/ output_dir.checkpoints # {})

NoDatasetNameFails ==
    args.dataset_name = None => pc \in {"start", "load_dataset"} \/ Aborted
NoTrainSplitFails ==
    "train" \notin hub.splits => pc \in {"start", "load_dataset"} \/ Aborted

(* C8, as stated: no dataset name, a non-empty output directory without
   overwrite_output_dir, or a dataset without train split each make main
   fail fast, before any model is loaded or training starts, with no retry. *)
ConfigErrorsFailFast ==
    /\ NoDatasetNameFails
    /\ NoTrainSplitFails
    /\ (DirNonEmpty /\ ~args.overwrite_output_dir) => pc = "start" \/ Aborted

(* C8, amended: the non-empty output directory is an error when training
   is requested, overwrite_output_dir is unset and the directory holds no
   checkpoint. *)
ConfigErrorsFailFastAmended ==
    /\ NoDatasetNameFails
    /\ NoTrainSplitFails
    /\ (DirNonEmpty /\ ~args.overwrite_output_dir /\ args.do_train
            /\ output_dir.checkpoints = {})
          => pc = "start" \/ (Aborted /\ error = DirError)
    /\ pc = "error" => Aborted

\* main stopped on the non-empty output directory
ConfigErrorsFailFastWitness ==
    /\ Aborted
    /\ error = DirError
    /\ output_dir.other
    /\ args.dataset_name # None
    /\ "train" \in hub.splits

Latest == Path("checkpoint", CHOOSE n \in output_dir.checkpoints :
                                \A m \in output_dir.checkpoints : m <= n)
Passed == trainer.resume_from_checkpoint

(* C9, as stated: trainer.train gets the latest checkpoint of the output
   directory; an explicit resume_from_checkpoint is passed instead; with
   overwrite_output_dir no checkpoint is passed. *)
ResumesFromLatest ==
    trainer.called =>
        /\ args.resume_from_checkpoint # None => Passed = args.resume_from_checkpoint
        /\ args.overwrite_output_dir => Passed = None
        /\ (args.resume_from_checkpoint = None /\ ~args.overwrite_output_dir
                /\ output_dir.checkpoints # {}) => Passed = Latest

(* C9, amended: with overwrite_output_dir no checkpoint is passed unless
   resume_from_checkpoint is given, which is passed whenever it is given. *)
ResumesFromLatestAmended ==
    /\ (pc = "done" /\ args.do_train) => trainer.called
    /\ trainer.called =>
        /\ args.do_train
        /\ args.resume_from_checkpoint # None => Passed = args.resume_from_checkpoint
        /\ (args.overwrite_output_dir /\ args.resume_from_checkpoint = None) => Passed = None
        /\ (args.resume_from_checkpoint = None /\ ~args.overwrite_output_dir
                /\ output_dir.checkpoints # {}) => Passed = Latest
        /\ (args.resume_from_checkpoint = None /\ output_dir.checkpoints = {}) => Passed = None

\* two checkpoints and other files in the output directory: the later
\* checkpoint is passed
ResumesFromLatestWitness ==
    /\ trainer.called
    /\ output_dir.checkpoints = {1, 2}
    /\ output_dir.other
    /\ args.resume_from_checkpoint = None
    /\ Passed = Path("checkpoint", 2)

====
